---------------------------- MODULE Spec2Model ----------------------------
(***************************************************************************)
(* Rule engine of the Tichu server (backend/game): card combinations,      *)
(* makeMove (play / pass / bomb interrupt), trick management, special      *)
(* cards, Dragon opponent selection, going out and round scoring.          *)
(*                                                                         *)
(* Players are the indices 0..3 of game.players (partners sit opposite).   *)
(* A card is an integer: the four special cards are 1..4, a standard card  *)
(* of rank value r (2..14) and suit s (1..4) is r * 10 + s.  Half values   *)
(* of single cards (Phoenix 1.5, x + 0.5) are kept doubled.                *)
(* trickHistory is a write-only log and is not modelled.                   *)
(***************************************************************************)
EXTENDS Integers, Sequences, FiniteSets, TLC

\* ---------------------------------------------------------------- cards

MahJong == 1
Dog == 2
Phoenix == 3
Dragon == 4

Hearts == 1
Diamonds == 2
Clubs == 3
Spades == 4

Card(rank, suit) == rank * 10 + suit

IsStandard(c) == c >= 20
IsSpecial(c) == c < 20
SuitOf(c) == c % 10

\* card.rank || card.name : a rank is its value 2..14, a name is 100 + card
RankOrName(c) == IF IsStandard(c) THEN c \div 10 ELSE 100 + c

PhoenixName == 100 + Phoenix

getCardValue(rank) == IF rank \in 2..14 THEN rank ELSE 0

getSpecialValue(name) ==
  IF name = 100 + MahJong THEN 1
  ELSE IF name = 100 + Dragon THEN 16
  ELSE 0

getCardPoints(c) ==
  IF IsSpecial(c)
    THEN (IF c = Dragon THEN 25 ELSE IF c = Phoenix THEN 0 - 25 ELSE 0)
    ELSE (IF c \div 10 = 5 THEN 5
          ELSE IF c \div 10 = 10 \/ c \div 10 = 13 THEN 10 ELSE 0)

\* ------------------------------------------------------- small helpers

SeqToSet(s) == {s[i] : i \in DOMAIN s}
CountOf(s, x) == Cardinality({i \in DOMAIN s : s[i] = x})
SetMax(S) == CHOOSE x \in S : \A y \in S : y <= x
SetMin(S) == CHOOSE x \in S : \A y \in S : x <= y
Includes(s, x) == \E i \in DOMAIN s : s[i] = x

\* the value e, evaluated once, handed to F
Only(S) == CHOOSE v \in S : TRUE
Bind(e, F(_)) == Only({F(v) : v \in {e}})

RECURSIVE SumPoints(_)
SumPoints(cards) ==
  IF cards = <<>> THEN 0
  ELSE getCardPoints(Head(cards)) + SumPoints(Tail(cards))

\* the cards of a set as a sequence in ascending order
RECURSIVE SortedSeq(_)
SortedSeq(S) ==
  IF S = {} THEN <<>>
  ELSE LET m == SetMin(S) IN <<m>> \o SortedSeq(S \ {m})

\* ---------------------------------------------------------- combinations

NullComparison == 0 - 2

Invalid ==
  [valid |-> FALSE, type |-> "none", cards |-> <<>>, rank |-> 0,
   numPairs |-> 0, highestValue |-> 0, tripleRank |-> 0, length |-> 0,
   bombType |-> "none", phoenixValue |-> 0]

Combo(type, cards) == [Invalid EXCEPT !.valid = TRUE, !.type = type, !.cards = cards]

RankNames(cards) == [i \in DOMAIN cards |-> RankOrName(cards[i])]

validatePair(cards) ==
  IF Len(cards) # 2 THEN Invalid
  ELSE LET ranks == RankNames(cards) IN
    IF ranks[1] = ranks[2] \/ (IsSpecial(cards[1]) /\ IsSpecial(cards[2]))
      THEN [Combo("pair", cards) EXCEPT !.rank = ranks[1]]
    ELSE IF Includes(cards, Phoenix)
      THEN LET otherCard == IF cards[1] # Phoenix THEN cards[1] ELSE cards[2]
           IN [Combo("pair", cards) EXCEPT !.rank = RankOrName(otherCard)]
    ELSE Invalid

validateTriple(cards) ==
  IF Len(cards) # 3 THEN Invalid
  ELSE LET ranks == SelectSeq(RankNames(cards), LAMBDA r : r # PhoenixName) IN
    IF Len(ranks) = 0 THEN Invalid
    ELSE IF Cardinality(SeqToSet(ranks)) = 1
      THEN [Combo("triple", cards) EXCEPT !.rank = ranks[1]]
    ELSE Invalid

validateSequenceOfPairs(cards) ==
  IF Len(cards) < 4 \/ Len(cards) % 2 # 0 THEN Invalid
  ELSE
    LET numPairs == Len(cards) \div 2
        grouped == SelectSeq(cards, LAMBDA c : IsStandard(c) \/ c = Phoenix)
        names == RankNames(grouped)
        ranks == SeqToSet(names)
        rankValues == {getCardValue(r) : r \in ranks \ {PhoenixName}}
        hasPhoenix == PhoenixName \in ranks
    IN
    IF \E r \in ranks : CountOf(names, r) # 2 THEN Invalid
    ELSE IF Cardinality(ranks) # numPairs THEN Invalid
    ELSE IF hasPhoenix /\ Cardinality(rankValues) # numPairs - 1 THEN Invalid
    ELSE IF Cardinality(rankValues) >= 2
            /\ SetMax(rankValues) - SetMin(rankValues) # Cardinality(rankValues) - 1
      THEN Invalid
    ELSE LET maxVal == SetMax(rankValues) IN
      [Combo("sequence-of-pairs", cards) EXCEPT
         !.numPairs = numPairs,
         !.rank = maxVal,
         !.highestValue = IF hasPhoenix THEN maxVal + 1 ELSE maxVal]

validateFullHouse(cards) ==
  IF Len(cards) # 5 THEN Invalid
  ELSE
    LET ranks == SelectSeq(RankNames(cards), LAMBDA r : r # PhoenixName)
        phoenixCount == CountOf(cards, Phoenix)
        keys == SeqToSet(ranks)
        counts == {CountOf(ranks, r) : r \in keys}
    IN
    IF Cardinality(keys) = 2
       /\ (counts = {3, 2} \/ (counts = {2} /\ phoenixCount = 1))
      THEN LET tripleRank ==
                 IF 3 \in counts
                   THEN CHOOSE r \in keys : CountOf(ranks, r) = 3
                   ELSE CHOOSE r \in keys :
                          \A q \in keys : getCardValue(q) <= getCardValue(r)
           IN [Combo("fullhouse", cards) EXCEPT !.tripleRank = tripleRank]
    ELSE Invalid

StraightValue(c) == IF c = MahJong THEN 1 ELSE getCardValue(RankOrName(c))

validateStraight(cards) ==
  IF Len(cards) < 5 THEN Invalid
  ELSE IF Includes(cards, Dragon) THEN Invalid
  ELSE
    LET standardCards ==
          SelectSeq(cards, LAMBDA c : IsStandard(c) \/ c = Phoenix \/ c = MahJong)
        valueCards == SelectSeq(standardCards, LAMBDA c : c # Phoenix)
        values == [i \in DOMAIN valueCards |-> StraightValue(valueCards[i])]
        valueSet == SeqToSet(values)
        hasPhoenix == Includes(cards, Phoenix)
    IN
    IF Len(standardCards) < 5 THEN Invalid
    ELSE IF Len(values) = 0 THEN Invalid
    ELSE IF Cardinality(valueSet) # Len(values)
            \/ SetMax(valueSet) - SetMin(valueSet) # Len(values) - 1
      THEN Invalid
    ELSE LET maxVal == SetMax(valueSet) IN
      [Combo("straight", cards) EXCEPT
         !.length = Len(cards),
         !.highestValue =
            IF hasPhoenix /\ Len(values) = Len(cards) - 1 /\ maxVal < 14
              THEN maxVal + 1 ELSE maxVal]

validateBomb(cards) ==
  IF Len(cards) # 4 THEN Invalid
  ELSE IF Includes(cards, Phoenix) THEN Invalid
  ELSE LET ranks == RankNames(cards) IN
    IF Cardinality(SeqToSet(ranks)) = 1
      THEN [Combo("bomb", cards) EXCEPT !.rank = ranks[1], !.bombType = "four-of-a-kind"]
    ELSE Invalid

validateStraightFlush(cards) ==
  IF Len(cards) < 5 THEN Invalid
  ELSE IF Includes(cards, Phoenix) THEN Invalid
  ELSE
    LET std == SelectSeq(cards, IsStandard)
        suits == {SuitOf(std[i]) : i \in DOMAIN std}
    IN
    IF Len(std) = 0 THEN Invalid
    ELSE IF Cardinality(suits) # 1 THEN Invalid
    ELSE IF validateStraight(cards).valid
      THEN [Combo("bomb", cards) EXCEPT
              !.bombType = "straight-flush",
              !.length = Len(cards),
              !.highestValue = SetMax({std[i] \div 10 : i \in DOMAIN std})]
    ELSE Invalid

validateCombination(cards) ==
  IF Len(cards) = 0 THEN Invalid
  ELSE IF Len(cards) = 1 THEN Combo("single", cards)
  ELSE IF Len(cards) = 2 THEN validatePair(cards)
  ELSE IF Len(cards) = 3 THEN validateTriple(cards)
  ELSE IF Len(cards) % 2 = 0 /\ validateSequenceOfPairs(cards).valid
    THEN validateSequenceOfPairs(cards)
  ELSE IF Len(cards) = 5 /\ validateFullHouse(cards).valid
    THEN validateFullHouse(cards)
  ELSE IF Len(cards) = 4 /\ validateBomb(cards).valid
    THEN validateBomb(cards)
  ELSE IF Len(cards) >= 5 /\ validateStraightFlush(cards).valid
    THEN validateStraightFlush(cards)
  ELSE IF Len(cards) >= 5 /\ validateStraight(cards).valid
    THEN validateStraight(cards)
  ELSE Invalid

Sign(a, b) == IF a > b THEN 1 ELSE IF a < b THEN 0 - 1 ELSE 0

compareRanks(rank1, rank2) ==
  LET val1 == IF getCardValue(rank1) # 0 THEN getCardValue(rank1) ELSE getSpecialValue(rank1)
      val2 == IF getCardValue(rank2) # 0 THEN getCardValue(rank2) ELSE getSpecialValue(rank2)
  IN Sign(val1, val2)

\* value of a single card, doubled; phoenixValue 0 stands for undefined
SingleValue(c, phoenixValue) ==
  IF c = Phoenix THEN (IF phoenixValue # 0 THEN phoenixValue ELSE 3)
  ELSE IF IsSpecial(c) THEN 2 * getSpecialValue(RankOrName(c))
  ELSE 2 * getCardValue(RankOrName(c))

compareSingles(combo1, combo2) ==
  Sign(SingleValue(combo1.cards[1], combo1.phoenixValue),
       SingleValue(combo2.cards[1], combo2.phoenixValue))

compareCombinations(combo1, combo2) ==
  IF combo1.type = "bomb" /\ combo2.type # "bomb" THEN 1
  ELSE IF combo2.type = "bomb" /\ combo1.type # "bomb" THEN 0 - 1
  ELSE IF combo1.type = "bomb" /\ combo2.type = "bomb"
    THEN IF combo1.bombType = "straight-flush" /\ combo2.bombType = "four-of-a-kind" THEN 1
         ELSE IF combo2.bombType = "straight-flush" /\ combo1.bombType = "four-of-a-kind" THEN 0 - 1
         ELSE IF combo1.bombType = "four-of-a-kind"
           THEN compareRanks(combo1.rank, combo2.rank)
         ELSE IF combo1.length > combo2.length THEN 1
         ELSE IF combo1.length < combo2.length THEN 0 - 1
         ELSE Sign(combo1.highestValue, combo2.highestValue)
  ELSE IF combo1.type # combo2.type THEN NullComparison
  ELSE IF combo1.type = "single" THEN compareSingles(combo1, combo2)
  ELSE IF combo1.type \in {"pair", "triple"} THEN compareRanks(combo1.rank, combo2.rank)
  ELSE IF combo1.type = "sequence-of-pairs"
    THEN IF combo1.numPairs # combo2.numPairs THEN NullComparison
         ELSE Sign(combo1.highestValue, combo2.highestValue)
  ELSE IF combo1.type = "straight"
    THEN IF combo1.length # combo2.length THEN NullComparison
         ELSE Sign(combo1.highestValue, combo2.highestValue)
  ELSE IF combo1.type = "fullhouse"
    THEN compareRanks(combo1.tripleRank, combo2.tripleRank)
  ELSE NullComparison


\* ------------------------------------------------------------ game state

Players == 0..3
NoPlayer == 0 - 1
NoWish == 0

\* players 0 and 2 are partners, players 1 and 3 are partners; which pair is
\* team 1 is drawn at random when the game starts
assignRandomTeams(firstPairTeam) ==
  [p \in Players |-> IF p % 2 = 0 THEN firstPairTeam ELSE 3 - firstPairTeam]

team(g, p) == g.teams[p]

NoSelection == [playerId |-> NoPlayer, trickCards |-> <<>>, trickPoints |-> 0]

EmptyStack == [cards |-> <<>>, points |-> 0]

\* game.turnOrder[idx] and game.turnOrder.findIndex(p => p.id === id)
PlayerAt(g, idx) == g.turnOrder[idx + 1]
IndexOf(g, id) ==
  IF \E i \in 0..3 : g.turnOrder[i + 1] = id
    THEN CHOOSE i \in 0..3 : g.turnOrder[i + 1] = id
    ELSE 0 - 1

Rotate(order, k) == [i \in 1..Len(order) |-> order[((i - 1 + k) % Len(order)) + 1]]

hasGoneOut(g, id) == Includes(g.playersOut, id)
hasNoCards(g, id) == g.hands[id] = {}
hasPlayed(g, id) == \E i \in DOMAIN g.currentTrick : g.currentTrick[i].playerId = id
hasPassed(g, id) == Includes(g.passedPlayers, id)

PlayCombination(play) ==
  Bind(play, LAMBDA p :
    [validateCombination(p.cards) EXCEPT !.phoenixValue = p.phoenixValue])

RECURSIVE WinningFrom(_, _, _)
WinningFrom(currentTrick, i, winningPlay) ==
  IF i > Len(currentTrick) THEN winningPlay
  ELSE IF compareCombinations(PlayCombination(currentTrick[i]),
                              PlayCombination(winningPlay)) = 1
    THEN WinningFrom(currentTrick, i + 1, currentTrick[i])
  ELSE WinningFrom(currentTrick, i + 1, winningPlay)

\* only used on a non-empty trick
getCurrentWinningPlay(currentTrick) == WinningFrom(currentTrick, 2, currentTrick[1])

RECURSIVE NextWithCardsFrom(_, _, _)
NextWithCardsFrom(g, startIndex, i) ==
  IF i > 4 THEN NoPlayer
  ELSE LET id == PlayerAt(g, (startIndex + i) % 4) IN
    IF ~hasGoneOut(g, id) /\ ~hasNoCards(g, id) THEN id
    ELSE NextWithCardsFrom(g, startIndex, i + 1)

getNextPlayerWithCards(g, startPlayerId) ==
  NextWithCardsFrom(g, IndexOf(g, startPlayerId), 1)

startNewTrick(g0) ==
  Bind([g0 EXCEPT !.currentTrick = <<>>, !.passedPlayers = <<>>,
                  !.dogPriorityPlayer = NoPlayer],
       LAMBDA g :
    IF IndexOf(g, g.leadPlayer) # 0 - 1
      THEN IF ~hasNoCards(g, g.leadPlayer) /\ ~hasGoneOut(g, g.leadPlayer)
             THEN [g EXCEPT !.currentPlayerIndex = IndexOf(g, g.leadPlayer)]
             ELSE Bind(getNextPlayerWithCards(g, g.leadPlayer), LAMBDA nextPlayer :
               IF nextPlayer # NoPlayer
                 THEN [g EXCEPT !.leadPlayer = nextPlayer,
                                !.currentPlayerIndex = IndexOf(g, nextPlayer)]
                 ELSE g)
      ELSE Bind({i \in 0..3 : ~hasNoCards(g, PlayerAt(g, i))
                              /\ ~hasGoneOut(g, PlayerAt(g, i))},
                LAMBDA able :
        IF able # {}
          THEN [g EXCEPT !.leadPlayer = PlayerAt(g, SetMin(able)),
                         !.currentPlayerIndex = SetMin(able)]
          ELSE g))

RECURSIVE TrickCards(_)
TrickCards(currentTrick) ==
  IF currentTrick = <<>> THEN <<>>
  ELSE Head(currentTrick).cards \o TrickCards(Tail(currentTrick))

\* the Dragon rule of winTrick: the winner is the player recorded in dragonPlayed
DragonWon(g, winnerId) == g.dragonPlayed # NoPlayer /\ g.dragonPlayed = winnerId

\* the first half of winTrick: the Dragon gift is recorded, or the trick goes
\* onto the winner's stack unless a gift is pending
AwardTrick(g, winnerId, trickCards) ==
  Bind(IF DragonWon(g, winnerId)
         THEN [g EXCEPT !.dragonOpponentSelection =
                 [playerId |-> winnerId, trickCards |-> trickCards,
                  trickPoints |-> SumPoints(trickCards)]]
         ELSE g,
       LAMBDA g1 :
    IF g1.dragonOpponentSelection = NoSelection
      THEN [g1 EXCEPT !.playerStacks[winnerId] =
              [cards |-> @.cards \o trickCards,
               points |-> @.points + SumPoints(trickCards)],
            !.leadPlayer = winnerId]
      ELSE [g1 EXCEPT !.leadPlayer = winnerId])

winTrick(g0, winnerId) ==
  Bind(g0, LAMBDA g :
    Bind(AwardTrick(g, winnerId, TrickCards(g.currentTrick)), LAMBDA g3 :
      IF g3.dragonOpponentSelection # NoSelection
        THEN [g3 EXCEPT !.currentTrick = <<>>, !.passedPlayers = <<>>]
        ELSE startNewTrick([g3 EXCEPT !.dragonPlayed = NoPlayer])))

\* no selection is rejected
SelectRejected_Never(g, dragonPlayerId, selectedOpponentId) == FALSE

\* guards of selectDragonOpponent; TRUE when the selection is rejected
SelectRejected(g, dragonPlayerId, selectedOpponentId) ==
  \/ g.dragonOpponentSelection = NoSelection
  \/ g.dragonOpponentSelection.playerId # dragonPlayerId
  \/ team(g, dragonPlayerId) = team(g, selectedOpponentId)

selectDragonOpponent(g, dragonPlayerId, selectedOpponentId) ==
  IF SelectRejected(g, dragonPlayerId, selectedOpponentId)
    THEN [game |-> g, success |-> FALSE]
    ELSE [game |-> startNewTrick(
                     [g EXCEPT !.playerStacks[selectedOpponentId] =
                        [cards |-> @.cards \o g.dragonOpponentSelection.trickCards,
                         points |-> @.points + g.dragonOpponentSelection.trickPoints],
                      !.dragonOpponentSelection = NoSelection,
                      !.dragonPlayed = NoPlayer]),
          success |-> TRUE]

\* ------------------------------------------------- dealing a new round

\* the cards of the model: the four special cards, the four 5s, the four
\* Kings, two 9s, two 10s and two 2s
Deck ==
  {MahJong, Dog, Phoenix, Dragon}
    \cup {Card(5, s) : s \in 1..4} \cup {Card(13, s) : s \in 1..4}
    \cup {Card(9, Hearts), Card(9, Diamonds), Card(10, Hearts), Card(2, Hearts)}
    \cup {Card(10, Diamonds), Card(2, Diamonds)}

\* rounds of the two dealing phases (8 and 6 with the full deck)
VisibleRounds == 2
HiddenRounds == 3

\* the shuffled deck that deals the four given hands round-robin
RECURSIVE DealRounds(_, _)
DealRounds(h, r) ==
  IF \A p \in 1..4 : Len(h[p]) < r THEN <<>>
  ELSE SelectSeq([p \in 1..4 |-> IF Len(h[p]) >= r THEN h[p][r] ELSE 0],
                 LAMBDA c : c # 0) \o DealRounds(h, r + 1)

ShuffleOf(h0, h1, h2, h3) ==
  DealRounds(<<SortedSeq(h0), SortedSeq(h1), SortedSeq(h2), SortedSeq(h3)>>, 1)

\* the shuffled model decks: one with two bombs, the Dog and the Dragon, one
\* with every special card in a different hand
BombShuffle ==
  ShuffleOf({51, 52, 53, 54}, {131, 132, 133, 134},
            {MahJong, Dog, 21}, {Dragon, 101, 92})

SpecialShuffle ==
  ShuffleOf({MahJong, 91, 92}, {Dragon, 51, 131},
            {Dog, 101, 52}, {Phoenix, 132, 21})

Shuffles == {BombShuffle, SpecialShuffle}

\* a deck that deals the Mah Jong and the Dragon each into a hand with a bomb
FiveShuffle ==
  ShuffleOf({MahJong, 51, 52, 53, 54}, {Dragon, 131, 132, 133, 134},
            {Dog, 91, 92, 21}, {Phoenix, 101, 102, 22})

\* a deck of two-card hands for the rounds that are played to their end with
\* declarations
ScoreShuffle ==
  ShuffleOf({MahJong, 131}, {51, 91}, {Dragon, 101}, {Phoenix, 21})

\* dealInitialCards: shuffled.shift() round-robin, first the visible cards
\* then the hidden ones
Dealt(shuffled, firstRound, rounds, player) ==
  {shuffled[i] : i \in {j \in DOMAIN shuffled :
      \E r \in firstRound..(firstRound + rounds - 1) : j = r * 4 + player + 1}}

initialHands(shuffled, player) == Dealt(shuffled, 0, VisibleRounds, player)
remainingCards(shuffled, player) ==
  Dealt(shuffled, VisibleRounds, HiddenRounds, player)

AllFalse == [p \in Players |-> FALSE]
ZeroScores == [team1 |-> 0, team2 |-> 0]

\* the first player (in seating order) holding the Mah Jong, else player 0
mahJongPlayer(shuffled) ==
  Bind({p \in Players :
          MahJong \in initialHands(shuffled, p) \cup remainingCards(shuffled, p)},
       LAMBDA holders : IF holders # {} THEN SetMin(holders) ELSE 0)

initializeGame(g, shuffled) ==
  Bind(mahJongPlayer(shuffled), LAMBDA mahJongIndex :
     [g EXCEPT
        !.hands = [p \in Players |-> initialHands(shuffled, p)],
        !.remainingCards = [p \in Players |-> remainingCards(shuffled, p)],
        !.cardsRevealed = AllFalse,
        !.turnOrder = Rotate(<<0, 1, 2, 3>>, mahJongIndex),
        !.currentPlayerIndex = 0,
        !.leadPlayer = mahJongIndex,
        !.currentTrick = <<>>,
        !.passedPlayers = <<>>,
        !.tichuDeclarations = AllFalse,
        !.grandTichuDeclarations = AllFalse,
        !.exchangeCards = [p \in Players |-> <<>>],
        !.exchangeComplete = AllFalse,
        !.roundScores = ZeroScores,
        !.firstCardPlayed = AllFalse,
        !.mahJongWish = NoWish,
        !.mahJongPlayed = FALSE,
        !.playersOut = <<>>,
        !.roundEnded = FALSE,
        !.dragonOpponentSelection = NoSelection,
        !.dogPriorityPlayer = NoPlayer,
        !.playerStacks = [p \in Players |-> EmptyStack],
        !.state = "grand-tichu"])

\* -------------------------------------------------- going out and scoring

WinningScore == 1000

AddTeam(sc, t, n) ==
  IF t = 1 THEN [sc EXCEPT !.team1 = @ + n] ELSE [sc EXCEPT !.team2 = @ + n]

TichuBonus(g, p) ==
  (IF g.tichuDeclarations[p]
     THEN (IF hasGoneOut(g, p) THEN 100 ELSE 0 - 100) ELSE 0)
  + (IF g.grandTichuDeclarations[p]
       THEN (IF hasGoneOut(g, p) THEN 200 ELSE 0 - 200) ELSE 0)

\* the sum over the players of team t
TeamSum(g, t, value) ==
  LET own(p) == IF team(g, p) = t THEN value[p] ELSE 0
  IN own(0) + own(1) + own(2) + own(3)

TeamBonus(g, t) == TeamSum(g, t, [p \in Players |-> TichuBonus(g, p)])

TeamPoints(g, t) == TeamSum(g, t, [p \in Players |-> g.playerStacks[p].points])

\* push the players of the sequence that are not yet in playersOut and copy
\* their remaining hand onto their own stack
RECURSIVE PushLast(_, _)
PushLast(g, ps) ==
  IF ps = <<>> THEN g
  ELSE Bind([g EXCEPT
               !.playersOut = IF hasGoneOut(g, Head(ps)) THEN @ ELSE Append(@, Head(ps)),
               !.playerStacks[Head(ps)].cards = @ \o SortedSeq(g.hands[Head(ps)])],
            LAMBDA g1 : PushLast(g1, Tail(ps)))

\* game.scores += game.roundScores, then match end or a new round
UpdateScores(g, shuffled) ==
  Bind([g EXCEPT !.scores = [team1 |-> @.team1 + g.roundScores.team1,
                             team2 |-> @.team2 + g.roundScores.team2]],
       LAMBDA g1 :
    IF g1.scores.team1 >= WinningScore \/ g1.scores.team2 >= WinningScore
      THEN [g1 EXCEPT !.state = "finished",
                      !.winner = IF g1.scores.team1 >= WinningScore THEN 1 ELSE 2]
      ELSE initializeGame(g1, shuffled))

IsDoubleVictory(g) ==
  Len(g.playersOut) = 2 /\ team(g, g.playersOut[1]) = team(g, g.playersOut[2])

NotOut(g) == SortedSeq({p \in Players : ~hasGoneOut(g, p)})

\* double victory: 200 points for the winning team, no card points
DoubleVictory(g1, shuffled) ==
  Bind(PushLast(g1, NotOut(g1)), LAMBDA g2 :
    UpdateScores(
      [g2 EXCEPT
         !.roundScores =
            [team1 |-> (IF team(g2, g2.playersOut[1]) = 1 THEN 200 ELSE 0)
                         + TeamBonus(g2, 1),
             team2 |-> (IF team(g2, g2.playersOut[1]) = 2 THEN 200 ELSE 0)
                         + TeamBonus(g2, 2)],
         !.roundEnded = TRUE,
         !.state = "round-ended"],
      shuffled))

\* last place hands all its points to first place
LastToFirst(g2) ==
  IF Len(g2.playersOut) = 4
    THEN [g2 EXCEPT
            !.playerStacks[g2.playersOut[1]].points =
               @ + g2.playerStacks[g2.playersOut[4]].points,
            !.playerStacks[g2.playersOut[4]].points = 0]
    ELSE g2

\* round scoring from the stacks, with the Tichu bonuses and penalties
FinalizeRound(g2, shuffled) ==
  Bind(LastToFirst(g2), LAMBDA g3 :
    UpdateScores(
      [g3 EXCEPT !.roundScores =
         [team1 |-> TeamPoints(g3, 1) + TeamBonus(g3, 1),
          team2 |-> TeamPoints(g3, 2) + TeamBonus(g3, 2)]],
      shuffled))

\* the player is put in front of those already out
PushOut_InFront(playersOut, playerId) == <<playerId>> \o playersOut

\* if (!game.playersOut.includes(playerId)) game.playersOut.push(playerId)
PushOut(playersOut, playerId) ==
  IF Includes(playersOut, playerId) THEN playersOut ELSE Append(playersOut, playerId)

handlePlayerWin(g0, playerId, shuffled) ==
  Bind([g0 EXCEPT !.playersOut = PushOut(@, playerId)],
       LAMBDA g1 :
    IF IsDoubleVictory(g1) THEN DoubleVictory(g1, shuffled)
    ELSE IF Len(NotOut(g1)) = 1
      THEN FinalizeRound([PushLast(g1, NotOut(g1)) EXCEPT
                            !.roundEnded = TRUE, !.state = "round-ended"],
                         shuffled)
    ELSE IF ~g1.roundEnded THEN g1
    ELSE FinalizeRound(g1, shuffled))

\* -------------------------------------------------------- special cards

\* doubled value of a card already in the trick, as getPhoenixValue reads it
PhoenixBase(play, c) ==
  IF c = Phoenix THEN play.phoenixValue
  ELSE IF c = Dragon THEN 2 * 16
  ELSE IF IsSpecial(c) THEN 2 * getSpecialValue(RankOrName(c))
  ELSE 2 * getCardValue(RankOrName(c))

\* doubled: 1.5 is 3, 15.5 is 31, highest + 0.5 is 2 * highest + 1
getPhoenixValue(currentTrick) ==
  IF Len(currentTrick) = 0 THEN 3
  ELSE
    LET vals == {0} \cup UNION {{PhoenixBase(currentTrick[i], currentTrick[i].cards[j]) :
                                    j \in DOMAIN currentTrick[i].cards} :
                                 i \in DOMAIN currentTrick}
        highestValue == SetMax(vals)
    IN IF highestValue >= 2 * 16 THEN 31 ELSE highestValue + 1

partner(g, playerId) ==
  CHOOSE p \in Players : team(g, p) = team(g, playerId) /\ p # playerId

\* the player who gets the lead from the Dog
DogReceiver(g, playerId) ==
  Bind(partner(g, playerId), LAMBDA p :
    IF ~hasNoCards(g, p) /\ ~hasGoneOut(g, p) THEN p
    ELSE getNextPlayerWithCards(g, p))

handleSpecialCards(g, playerId, cards, combination) ==
  IF Includes(cards, Dog)
    THEN
      IF Len(g.currentTrick) > 0
        THEN [game |-> g, error |-> TRUE, dogPlayed |-> FALSE]
        ELSE Bind(DogReceiver(g, playerId), LAMBDA nextLeadPlayer :
          IF nextLeadPlayer # NoPlayer
            THEN [game |-> [g EXCEPT !.leadPlayer = nextLeadPlayer,
                                     !.dogPriorityPlayer = nextLeadPlayer,
                                     !.currentPlayerIndex = IndexOf(g, nextLeadPlayer)],
                  error |-> FALSE, dogPlayed |-> TRUE]
            ELSE [game |-> g, error |-> TRUE, dogPlayed |-> FALSE])
    ELSE IF Includes(cards, Dragon) /\ combination.type = "single"
      THEN [game |-> [g EXCEPT !.dragonPlayed = playerId],
            error |-> FALSE, dogPlayed |-> FALSE]
    ELSE [game |-> g, error |-> FALSE, dogPlayed |-> FALSE]

\* ------------------------------------------------------------- makeMove

Result(g, ok) ==
  [game |-> g, success |-> ok, trickWon |-> FALSE, bombPlayed |-> FALSE,
   playerWon |-> FALSE]

Played(g) == {g.currentTrick[i].playerId : i \in DOMAIN g.currentTrick}
Passed(g) == SeqToSet(g.passedPlayers)

\* the while loops of makeMove that look for the next player to act: stop at
\* the first player who is not out, has cards and is not in skip, or at the
\* lead player's index, or after one full cycle
RECURSIVE NextIndex(_, _, _, _, _)
NextIndex(g, nextPlayerIndex, attempts, leadPlayerIndex, skip) ==
  IF attempts >= Len(g.turnOrder) THEN nextPlayerIndex
  ELSE LET nextPlayerId == PlayerAt(g, nextPlayerIndex) IN
    IF ~hasGoneOut(g, nextPlayerId) /\ ~hasNoCards(g, nextPlayerId)
       /\ nextPlayerId \notin skip
      THEN nextPlayerIndex
    ELSE IF nextPlayerIndex = leadPlayerIndex THEN nextPlayerIndex
    ELSE NextIndex(g, (nextPlayerIndex + 1) % Len(g.turnOrder), attempts + 1,
                   leadPlayerIndex, skip)

\* index in turn order of the first player of the current trick, or -1
TrickLeadIndex(g) ==
  IF g.currentTrick # <<>> THEN IndexOf(g, g.currentTrick[1].playerId) ELSE 0 - 1

\* the turn check left out
IsCurrentPlayer_AnySeat(g, playerId) == TRUE

IsCurrentPlayer(g, playerId) == PlayerAt(g, g.currentPlayerIndex) = playerId

hasWishedCard(g, playerId) ==
  \E c \in g.hands[playerId] : IsStandard(c) /\ c \div 10 = g.mahJongWish

\* no pass guard
MustPlay_Never(g, playerId) == FALSE

\* the pass guards: lead player, Dog priority, active wish with the wished card
MustPlay(g, playerId) ==
  \/ g.leadPlayer = playerId
  \/ g.dogPriorityPlayer = playerId
  \/ (g.mahJongWish # NoWish /\ hasWishedCard(g, playerId))

playersWhoShouldHaveTurn(g, leadPlayerId) ==
  {p \in Players : p # leadPlayerId /\ ~hasGoneOut(g, p) /\ ~hasNoCards(g, p)}

\* nobody is waited for
allPlayersHaveActed_Always(g, leadPlayerId) == TRUE

allPlayersHaveActed(g, leadPlayerId) ==
  /\ playersWhoShouldHaveTurn(g, leadPlayerId) # {}
  /\ \A p \in playersWhoShouldHaveTurn(g, leadPlayerId) :
       hasPassed(g, p) \/ hasPlayed(g, p)

cycledBackToLead(g, leadPlayerId, before, after) ==
  Bind(IndexOf(g, leadPlayerId), LAMBDA leadPlayerIndex :
     /\ playersWhoShouldHaveTurn(g, leadPlayerId) # {}
     /\ allPlayersHaveActed(g, leadPlayerId)
     /\ \/ /\ \/ before > leadPlayerIndex
              \/ (before < leadPlayerIndex /\ before = 0)
           /\ after <= leadPlayerIndex
        \/ PlayerAt(g, after) = leadPlayerId)

\* the pass once it is recorded in passedPlayers: the turn moves on and the
\* trick ends when everybody has acted and the turn is back at the lead
PassOn(g, leadPlayerId) ==
  Bind(NextIndex(g, (g.currentPlayerIndex + 1) % Len(g.turnOrder), 0,
                 IndexOf(g, leadPlayerId), Passed(g) \cup Played(g)),
       LAMBDA after :
    IF allPlayersHaveActed(g, leadPlayerId)
       /\ cycledBackToLead(g, leadPlayerId, g.currentPlayerIndex, after)
      THEN [Result(winTrick([g EXCEPT !.currentPlayerIndex = after],
                            getCurrentWinningPlay(g.currentTrick).playerId), TRUE)
              EXCEPT !.trickWon = TRUE]
      ELSE Result([g EXCEPT !.currentPlayerIndex = after], TRUE))

PassMove(g0, playerId) ==
  IF ~IsCurrentPlayer(g0, playerId) THEN Result(g0, FALSE)
  ELSE IF MustPlay(g0, playerId) THEN Result(g0, FALSE)
  ELSE Bind([g0 EXCEPT !.passedPlayers = Append(@, playerId)], LAMBDA g :
    IF g.currentTrick = <<>> THEN Result(g, FALSE)
    ELSE PassOn(g, g.currentTrick[1].playerId))

\* every named card is found in the hand (each card is looked up on its own)
CardsInHand(g, playerId, cards) ==
  \A i \in DOMAIN cards : cards[i] \in g.hands[playerId]

dogInTrick(g) ==
  \E i \in DOMAIN g.currentTrick : Includes(g.currentTrick[i].cards, Dog)

\* any bomb may follow a bomb
BombTooLow_Never(g, validation) == FALSE

\* a bomb on a trick whose highest play is a bomb must beat that bomb
BombTooLow(g, validation) ==
  /\ Len(g.currentTrick) > 0
  /\ Bind(PlayCombination(getCurrentWinningPlay(g.currentTrick)), LAMBDA currentBomb :
       /\ currentBomb.type = "bomb"
       /\ Bind(compareCombinations(validation, currentBomb), LAMBDA comparison :
            comparison = NullComparison \/ comparison <= 0))

Entry(playerId, cards, phoenixValue) ==
  [playerId |-> playerId, cards |-> cards, phoenixValue |-> phoenixValue]

RemoveCards(g, playerId, cards) ==
  [g EXCEPT !.hands[playerId] = @ \ SeqToSet(cards)]

\* the turn after a bomb: from index 1 of the rotated turn order
AfterBomb(g) ==
  [g EXCEPT !.passedPlayers = <<>>,
            !.currentPlayerIndex =
               NextIndex(g, 1 % Len(g.turnOrder), 0, TrickLeadIndex(g), Played(g))]

BombMove(g0, playerId, cards, validation, shuffled) ==
  IF dogInTrick(g0) THEN Result(g0, FALSE)
  ELSE IF BombTooLow(g0, validation) THEN Result(g0, FALSE)
  ELSE
    Bind([RemoveCards(g0, playerId, cards) EXCEPT
            !.currentTrick = Append(@, Entry(playerId, cards, 0)),
            !.passedPlayers = <<>>,
            !.leadPlayer = playerId,
            !.turnOrder = Rotate(@, IndexOf(g0, playerId)),
            !.currentPlayerIndex = 0,
            !.firstCardPlayed[playerId] = TRUE],
         LAMBDA g1 :
      IF hasNoCards(g1, playerId)
        THEN Bind(handlePlayerWin(g1, playerId, shuffled), LAMBDA g2 :
          IF ~g2.roundEnded
            THEN [Result(AfterBomb(g2), TRUE)
                    EXCEPT !.bombPlayed = TRUE, !.playerWon = TRUE]
            ELSE [Result(g2, TRUE) EXCEPT !.bombPlayed = TRUE, !.playerWon = TRUE])
        ELSE [Result(AfterBomb(g1), TRUE) EXCEPT !.bombPlayed = TRUE])

\* the Mah Jong holder leading the first trick must include the Mah Jong
MahJongFirst(g, playerId, cards) ==
  /\ ~g.mahJongPlayed /\ g.leadPlayer = playerId /\ Len(g.currentTrick) = 0
  /\ MahJong \in g.hands[playerId]
  /\ ~Includes(cards, MahJong)

DogException(g, playerId) ==
  /\ Len(g.currentTrick) = 1 /\ Includes(g.currentTrick[1].cards, Dog)
  /\ g.dogPriorityPlayer = playerId

\* the play does not beat the current highest play of the trick
DoesNotBeat(g, validation) ==
  Bind(PlayCombination(getCurrentWinningPlay(g.currentTrick)),
       LAMBDA currentWinningCombo :
    \/ (currentWinningCombo.type = "bomb" /\ validation.type # "bomb")
    \/ Bind(compareCombinations(validation, currentWinningCombo), LAMBDA comparison :
         comparison = NullComparison \/ comparison <= 0))

IsWishedSingle(g, cards, validation) ==
  validation.type = "single" /\ IsStandard(cards[1])
    /\ cards[1] \div 10 = g.mahJongWish

\* leading a trick while a wish is active
WishLeadViolated(g, playerId, cards, validation) ==
  /\ g.mahJongWish # NoWish
  /\ IF hasWishedCard(g, playerId)
       THEN ~IsWishedSingle(g, cards, validation)
       ELSE validation.type # "single"

validRanks == 2..14

\* Mah Jong played as a single on an empty trick
WishNeeded(g, cards, validation) ==
  Includes(cards, MahJong) /\ validation.type = "single" /\ Len(g.currentTrick) = 0

\* the turn after a play: the next player who has not played in this trick
AfterPlay(g, skip) ==
  [g EXCEPT !.passedPlayers = <<>>,
            !.currentPlayerIndex =
               NextIndex(g, (g.currentPlayerIndex + 1) % Len(g.turnOrder), 0,
                         TrickLeadIndex(g), skip)]

\* the player emptied the hand (and did not play the Dog)
GoOut(g3, playerId, shuffled) ==
  IF Len(g3.passedPlayers) = Cardinality(Players) - 1
    THEN [Result(handlePlayerWin(winTrick(g3, playerId), playerId, shuffled), TRUE)
            EXCEPT !.trickWon = TRUE, !.playerWon = TRUE]
    ELSE Bind(handlePlayerWin(g3, playerId, shuffled), LAMBDA g4 :
      IF ~g4.roundEnded
        THEN [Result(AfterPlay(g4, Played(g4) \cup {playerId}), TRUE)
                EXCEPT !.playerWon = TRUE]
        ELSE [Result(g4, TRUE) EXCEPT !.playerWon = TRUE])

\* the play once its cards are in the trick
Advance(g3, playerId, dogWasPlayed, shuffled) ==
  IF hasNoCards(g3, playerId) /\ ~dogWasPlayed THEN GoOut(g3, playerId, shuffled)
  ELSE Bind(IF g3.dogPriorityPlayer = playerId
              THEN [g3 EXCEPT !.dogPriorityPlayer = NoPlayer] ELSE g3,
            LAMBDA g4 :
    IF ~dogWasPlayed THEN Result(AfterPlay(g4, Played(g4)), TRUE)
    ELSE Result(g4, TRUE))

\* the wished card does not clear the wish
PutInTrick_WishKept(g, playerId, cards, validation, phoenixValue) ==
  [RemoveCards(g, playerId, cards) EXCEPT
     !.firstCardPlayed[playerId] = TRUE,
     !.currentTrick = Append(@, Entry(playerId, cards, phoenixValue))]

\* the cards leave the hand and join the trick; a single card of the wished
\* rank clears the wish
PutInTrick(g, playerId, cards, validation, phoenixValue) ==
  [RemoveCards(g, playerId, cards) EXCEPT
     !.firstCardPlayed[playerId] = TRUE,
     !.currentTrick = Append(@, Entry(playerId, cards, phoenixValue)),
     !.mahJongWish = IF @ # NoWish /\ IsWishedSingle(g, cards, validation)
                       THEN NoWish ELSE @]

\* the wish and mahJongPlayed once the play has passed the checks
SetWish(g0, cards, validation, mahJongWish) ==
  IF WishNeeded(g0, cards, validation)
    THEN [g0 EXCEPT !.mahJongWish = mahJongWish, !.mahJongPlayed = TRUE]
  ELSE IF Includes(cards, MahJong) /\ validation.type = "straight"
    THEN [g0 EXCEPT !.mahJongPlayed = TRUE, !.mahJongWish = NoWish]
  ELSE g0

NormalMove(g0, playerId, cards, validation, mahJongWish, shuffled) ==
  IF ~IsCurrentPlayer(g0, playerId) THEN Result(g0, FALSE)
  ELSE IF MahJongFirst(g0, playerId, cards) THEN Result(g0, FALSE)
  ELSE IF Len(g0.currentTrick) > 0 /\ ~DogException(g0, playerId)
          /\ DoesNotBeat(g0, validation)
    THEN Result(g0, FALSE)
  ELSE IF Len(g0.currentTrick) = 0
          /\ WishLeadViolated(g0, playerId, cards, validation)
    THEN Result(g0, FALSE)
  ELSE IF WishNeeded(g0, cards, validation) /\ mahJongWish = NoWish
    THEN Result(g0, FALSE)
  ELSE IF WishNeeded(g0, cards, validation) /\ mahJongWish \notin validRanks
    THEN Result(g0, FALSE)
  ELSE
    Bind(SetWish(g0, cards, validation, mahJongWish), LAMBDA g1 :
      Bind(handleSpecialCards(g1, playerId, cards, validation), LAMBDA special :
        IF special.error THEN Result(g1, FALSE)
        ELSE Bind(PutInTrick(special.game, playerId, cards, validation,
                             IF validation.type = "single" /\ cards[1] = Phoenix
                               THEN getPhoenixValue(g1.currentTrick) ELSE 0),
                  LAMBDA g3 : Advance(g3, playerId, special.dogPlayed, shuffled))))

makeMove(g, playerId, cards, action, mahJongWish, shuffled) ==
  IF g.state # "playing" THEN Result(g, FALSE)
  ELSE IF action = "pass" THEN PassMove(g, playerId)
  ELSE Bind(validateCombination(cards), LAMBDA validation :
    IF ~validation.valid THEN Result(g, FALSE)
    ELSE IF ~CardsInHand(g, playerId, cards) THEN Result(g, FALSE)
    ELSE IF validation.type = "bomb"
      THEN BombMove(g, playerId, cards, validation, shuffled)
    ELSE NormalMove(g, playerId, cards, validation, mahJongWish, shuffled))

\* declareTichu: during play, on the own turn, before the first own card
declareTichu(g, playerId) ==
  IF g.state # "playing" THEN [game |-> g, success |-> FALSE]
  ELSE IF g.firstCardPlayed[playerId] THEN [game |-> g, success |-> FALSE]
  ELSE IF PlayerAt(g, g.currentPlayerIndex) # playerId
    THEN [game |-> g, success |-> FALSE]
  ELSE [game |-> [g EXCEPT !.tichuDeclarations[playerId] = TRUE], success |-> TRUE]

\* the Grand Tichu declarations made in the grand-tichu phase by the players
\* of the set; they are not touched again before the round is scored
GrandTichuDeclared(g, declarers) ==
  [g EXCEPT !.grandTichuDeclarations = [p \in Players |-> p \in declarers]]

\* declareGrandTichu: in the grand-tichu phase, before the own hidden cards
\* are revealed; the declaration reveals them
declareGrandTichu(g, playerId) ==
  IF g.state # "grand-tichu" THEN [game |-> g, success |-> FALSE]
  ELSE IF g.cardsRevealed[playerId] THEN [game |-> g, success |-> FALSE]
  ELSE [game |-> [g EXCEPT !.grandTichuDeclarations[playerId] = TRUE,
                           !.cardsRevealed[playerId] = TRUE,
                           !.hands[playerId] = @ \cup g.remainingCards[playerId]],
        success |-> TRUE]

\* revealRemainingCards: the same without a declaration
revealRemainingCards(g, playerId) ==
  IF g.state # "grand-tichu" THEN [game |-> g, success |-> FALSE]
  ELSE IF g.cardsRevealed[playerId] THEN [game |-> g, success |-> FALSE]
  ELSE [game |-> [g EXCEPT !.cardsRevealed[playerId] = TRUE,
                           !.hands[playerId] = @ \cup g.remainingCards[playerId]],
        success |-> TRUE]

\* ------------------------------------------------------ the card exchange

\* getExchangeRecipients: the three other players in turn order
getExchangeRecipients(g, giverId) ==
  [i \in 1..3 |-> PlayerAt(g, (IndexOf(g, giverId) + i) % 4)]

\* exchangeCards: three cards, each found in the hand; the list is stored
exchangeCards(g, playerId, cardsToExchange) ==
  IF g.state # "exchanging" THEN [game |-> g, success |-> FALSE]
  ELSE IF Len(cardsToExchange) # 3 THEN [game |-> g, success |-> FALSE]
  ELSE IF \E i \in DOMAIN cardsToExchange : cardsToExchange[i] \notin g.hands[playerId]
    THEN [game |-> g, success |-> FALSE]
  ELSE [game |-> [g EXCEPT !.exchangeCards[playerId] = cardsToExchange],
        success |-> TRUE]

\* the loops of completeExchange: step k moves card k % 3 of giver k \div 3
\* to its recipient if the card is (still) found in the giver's hand
RECURSIVE GiveCards(_, _, _)
GiveCards(g, hands, k) ==
  IF k = 12 THEN hands
  ELSE Bind(g.exchangeCards[k \div 3][(k % 3) + 1], LAMBDA card :
         GiveCards(g,
           IF card \in hands[k \div 3]
             THEN [hands EXCEPT
                     ![k \div 3] = @ \ {card},
                     ![getExchangeRecipients(g, k \div 3)[(k % 3) + 1]] = @ \cup {card}]
             ELSE hands,
           k + 1))

\* the holder of the Mah Jong is not looked up again
newMahJongPlayer_Kept(g, hands) == g.leadPlayer

\* the first player (in seating order) holding the Mah Jong after the swap,
\* else the lead player, else player 0
newMahJongPlayer(g, hands) ==
  Bind({p \in Players : MahJong \in hands[p]}, LAMBDA holders :
    IF holders # {} THEN SetMin(holders)
    ELSE IF g.leadPlayer \in Players THEN g.leadPlayer ELSE 0)

completeExchange(g) ==
  IF \E p \in Players : Len(g.exchangeCards[p]) # 3
    THEN [game |-> g, success |-> FALSE]
  ELSE Bind(GiveCards(g, g.hands, 0), LAMBDA hands :
         Bind(newMahJongPlayer(g, hands), LAMBDA mahJongIndex :
           [game |-> [g EXCEPT !.hands = hands,
                               !.exchangeCards = [p \in Players |-> <<>>],
                               !.exchangeComplete = AllFalse,
                               !.leadPlayer = mahJongIndex,
                               !.turnOrder = Rotate(<<0, 1, 2, 3>>, mahJongIndex),
                               !.currentPlayerIndex = 0,
                               !.state = "playing"],
            success |-> TRUE]))

allRevealed(g) == \A p \in Players : g.cardsRevealed[p]

\* the exchange-cards handler (no test players in the game): a stored list
\* marks the sender complete, the fourth one completes the exchange
onExchangeCards(g, playerId, cards) ==
  Bind(exchangeCards(g, playerId, cards), LAMBDA result :
    IF ~result.success THEN result
    ELSE Bind([result.game EXCEPT !.exchangeComplete[playerId] = TRUE], LAMBDA g1 :
           IF \A p \in Players : g1.exchangeComplete[p]
             THEN [game |-> completeExchange(g1).game, success |-> TRUE]
             ELSE [game |-> g1, success |-> TRUE]))

\* ------------------------------------------------------ the state machine

VARIABLES game, last

vars == <<game, last>>

\* most entries of passedPlayers the passes of the model may build up
MaxPassed == 4

\* most cards of one play
MaxPlayLen == 4

\* the rounds the model starts from: a first round with either deck, and a
\* late round of a match in which both teams are close to the winning score
LateScores == [team1 |-> 980, team2 |-> 990]

Starts == {<<BombShuffle, ZeroScores, 1>>, <<SpecialShuffle, ZeroScores, 2>>,
           <<SpecialShuffle, LateScores, 1>>}

\* an invalid wish: the name of a special card
DragonName == 100 + Dragon

\* the card lists a client may send: cards of the own hand in ascending
\* order (of each rank the lowest suits held), a held card named twice, and
\* cards of the deck the player may not hold
LowestSuits(hand, S) ==
  \A c \in S : \A d \in hand \ S : c \div 10 = d \div 10 => c < d

OwnPlays(hand) ==
  {SortedSeq(S) : S \in {T \in SUBSET hand :
      T # {} /\ Cardinality(T) <= MaxPlayLen /\ LowestSuits(hand, T)}}

RepeatedCards == {Card(2, Hearts)}

RepeatedPlays(hand) ==
  {<<c, c>> : c \in hand \cap RepeatedCards}

DeckPlays ==
  {<<Dragon>>, <<Card(13, Spades)>>, SortedSeq({Card(5, s) : s \in 1..4})}

Plays(g, playerId) ==
  OwnPlays(g.hands[playerId]) \cup RepeatedPlays(g.hands[playerId]) \cup DeckPlays

\* the wishes sent along with a card list: none, a rank (10 or King), a
\* special card's name
Wishes(cards) ==
  IF cards = <<MahJong>> THEN {NoWish, 10, 13, DragonName} ELSE {NoWish}

\* the game of four joined players before the first deal
WaitingGame(scores, firstPairTeam) ==
  [state |-> "waiting", teams |-> assignRandomTeams(firstPairTeam),
   hands |-> [p \in Players |-> {}],
   remainingCards |-> [p \in Players |-> {}],
   cardsRevealed |-> AllFalse, turnOrder |-> <<0, 1, 2, 3>>,
   currentPlayerIndex |-> 0, leadPlayer |-> NoPlayer,
   currentTrick |-> <<>>, passedPlayers |-> <<>>,
   tichuDeclarations |-> AllFalse, grandTichuDeclarations |-> AllFalse,
   exchangeCards |-> [p \in Players |-> <<>>],
   exchangeComplete |-> AllFalse, roundScores |-> ZeroScores,
   scores |-> scores, firstCardPlayed |-> AllFalse,
   mahJongWish |-> NoWish, mahJongPlayed |-> FALSE,
   playersOut |-> <<>>, roundEnded |-> FALSE,
   dragonOpponentSelection |-> NoSelection,
   dogPriorityPlayer |-> NoPlayer, dragonPlayed |-> NoPlayer,
   playerStacks |-> [p \in Players |-> EmptyStack], winner |-> 0]

\* the game when the play phase starts (after completeExchange)
StartOfPlay(shuffled, scores, firstPairTeam) ==
  Bind(initializeGame(WaitingGame(scores, firstPairTeam), shuffled),
       LAMBDA g :
    [g EXCEPT !.hands = [p \in Players |-> g.hands[p] \cup g.remainingCards[p]],
              !.cardsRevealed = [p \in Players |-> TRUE],
              !.state = "playing"])

Last(action, playerId, r) ==
  [action |-> action, playerId |-> playerId, success |-> r.success,
   trickWon |-> r.trickWon, bombPlayed |-> r.bombPlayed, playerWon |-> r.playerWon]

Init ==
  /\ \E start \in Starts : game = StartOfPlay(start[1], start[2], start[3])
  /\ last = Last("none", NoPlayer, Result(game, TRUE))

\* a rejected intent that changed nothing leaves no trace
Record(r, entry) == IF ~r.success /\ r.game = game THEN last ELSE entry

\* make-move with action 'play'
Play(playerId, cards, mahJongWish, shuffled) ==
  \E r \in {makeMove(game, playerId, cards, "play", mahJongWish, shuffled)} :
    /\ game' = r.game
    /\ last' = Record(r, Last("play", playerId, r))

\* make-move with action 'pass'
Pass(playerId) ==
  /\ Len(game.passedPlayers) < MaxPassed
  /\ \E r \in {makeMove(game, playerId, <<>>, "pass", NoWish, <<>>)} :
       /\ game' = r.game
       /\ last' = Record(r, Last("pass", playerId, r))

\* select-dragon-opponent
SelectDragonOpponent(playerId, selectedOpponentId) ==
  \E r \in {selectDragonOpponent(game, playerId, selectedOpponentId)} :
    /\ game' = r.game
    /\ last' = Record(r, Last("select", playerId,
                              [Result(r.game, r.success) EXCEPT !.trickWon = r.success]))

Next ==
  \/ \E playerId \in Players, shuffled \in Shuffles :
       \E cards \in Plays(game, playerId) : \E mahJongWish \in Wishes(cards) :
         Play(playerId, cards, mahJongWish, shuffled)
  \/ \E playerId \in Players : Pass(playerId)
  \/ \E playerId \in Players, selectedOpponentId \in Players :
       SelectDragonOpponent(playerId, selectedOpponentId)

Spec == Init /\ [][Next]_vars

\* a first round dealt from the deck with the five-card hands
InitFive ==
  /\ game = StartOfPlay(FiveShuffle, ZeroScores, 1)
  /\ last = Last("none", NoPlayer, Result(game, TRUE))

\* most cards played in the round dealt with the five-card hands
MaxCardsPlayed == 6

CardsPlayed ==
  Len(FiveShuffle) - (Cardinality(game.hands[0]) + Cardinality(game.hands[1])
                        + Cardinality(game.hands[2]) + Cardinality(game.hands[3]))

\* the opening of that round: intents as in Next, plays while few cards are out
NextFive ==
  \/ /\ CardsPlayed < MaxCardsPlayed
     /\ \E playerId \in Players, shuffled \in Shuffles :
          \E cards \in Plays(game, playerId) : \E mahJongWish \in Wishes(cards) :
            Play(playerId, cards, mahJongWish, shuffled)
  \/ \E playerId \in Players : Pass(playerId)
  \/ \E playerId \in Players, selectedOpponentId \in Players :
       SelectDragonOpponent(playerId, selectedOpponentId)

SpecFive == InitFive /\ [][NextFive]_vars

\* the players that declared Grand Tichu before the round dealt with the
\* two-card hands
GrandDeclarers == {{}, {0}, {3}}

InitScore ==
  /\ \E declarers \in GrandDeclarers :
       game = GrandTichuDeclared(StartOfPlay(ScoreShuffle, ZeroScores, 1), declarers)
  /\ last = Last("none", NoPlayer, Result(game, TRUE))

\* declare-tichu
DeclareTichu(playerId) ==
  \E r \in {declareTichu(game, playerId)} :
    /\ game' = r.game
    /\ last' = Record(r, Last("declare", playerId, Result(r.game, r.success)))

\* the intents of Next and the Tichu declaration
NextScore ==
  \/ \E playerId \in Players, shuffled \in Shuffles :
       \E cards \in Plays(game, playerId) : \E mahJongWish \in Wishes(cards) :
         Play(playerId, cards, mahJongWish, shuffled)
  \/ \E playerId \in Players : Pass(playerId)
  \/ \E playerId \in Players, selectedOpponentId \in Players :
       SelectDragonOpponent(playerId, selectedOpponentId)
  \/ \E playerId \in Players : DeclareTichu(playerId)

SpecScore == InitScore /\ [][NextScore]_vars

\* the history of the open trick: the seat that opened it and the seats whose
\* play or pass was accepted in it; a Dog lead opens no trick
Turns(action, playerId, cards, r) ==
  IF ~r.success THEN [leader |-> last.leader, turns |-> last.turns]
  ELSE IF r.game.currentTrick = <<>> \/ Includes(cards, Dog) \/ action = "select"
    THEN [leader |-> NoPlayer, turns |-> {}]
  ELSE [leader |-> IF last.leader = NoPlayer THEN playerId ELSE last.leader,
        turns |-> last.turns \cup {playerId}]

\* a first round of either deck, with the history of the trick
InitTurns ==
  /\ \E shuffled \in Shuffles : game = StartOfPlay(shuffled, ZeroScores, 2)
  /\ last = [leader |-> NoPlayer, turns |-> {}]
               @@ Last("none", NoPlayer, Result(game, TRUE))

PlayTurn(playerId, cards, mahJongWish, shuffled) ==
  \E r \in {makeMove(game, playerId, cards, "play", mahJongWish, shuffled)} :
    /\ game' = r.game
    /\ last' = Turns("play", playerId, cards, r)
                 @@ Record(r, Last("play", playerId, r))

PassTurn(playerId) ==
  /\ Len(game.passedPlayers) < MaxPassed
  /\ \E r \in {makeMove(game, playerId, <<>>, "pass", NoWish, <<>>)} :
       /\ game' = r.game
       /\ last' = Turns("pass", playerId, <<>>, r)
                    @@ Record(r, Last("pass", playerId, r))

SelectTurn(playerId, selectedOpponentId) ==
  \E r \in {selectDragonOpponent(game, playerId, selectedOpponentId)} :
    /\ game' = r.game
    /\ last' = Turns("select", playerId, <<>>, r)
                 @@ Record(r, Last("select", playerId,
                                   [Result(r.game, r.success) EXCEPT !.trickWon = r.success]))

NextTurns ==
  \/ \E playerId \in Players, shuffled \in Shuffles :
       \E cards \in Plays(game, playerId) : \E mahJongWish \in Wishes(cards) :
         PlayTurn(playerId, cards, mahJongWish, shuffled)
  \/ \E playerId \in Players : PassTurn(playerId)
  \/ \E playerId \in Players, selectedOpponentId \in Players :
       SelectTurn(playerId, selectedOpponentId)

SpecTurns == InitTurns /\ [][NextTurns]_vars

\* getPlayerView: a copy of the game with the own hand only, the sizes of
\* the other hands, and during the exchange the own recipients
getPlayerView(g, playerId) ==
  [hands |-> [p \in {playerId} |-> g.hands[p]],
   handCounts |-> [p \in Players \ {playerId} |-> Cardinality(g.hands[p])],
   exchangeRecipients |->
     IF g.state = "exchanging" THEN getExchangeRecipients(g, playerId) ELSE <<>>]
    @@ g

\* ------------------------------------- from the deal to the start of play

\* the card lists a client may send for the exchange: the three lowest cards
\* of the own hand, these in reverse, a card named twice, two cards, four
\* cards, and a card the player may not hold
Submissions(hand) ==
  Bind(SortedSeq(hand), LAMBDA s :
    (IF Len(s) >= 3
       THEN {<<s[1], s[2], s[3]>>, <<s[3], s[2], s[1]>>}
       ELSE {})
    \cup (IF Len(s) >= 2
            THEN {<<s[1], s[1], s[2]>>, <<s[1], s[2]>>,
                  <<s[1], s[2], Card(13, Spades)>>}
            ELSE {})
    \cup (IF Len(s) >= 4 THEN {SubSeq(s, 1, 4)} ELSE {}))

\* the timers pending in the event loop: the one startGame sets, and the
\* one a reveal or Grand Tichu handler sets when everybody has revealed
Timers(startTimer, timer) == [startTimer |-> startTimer, timer |-> timer]

\* startGame: the round is dealt and the auto-advance timer is set; of the
\* history only the pending timers are kept
InitDeal ==
  /\ game = initializeGame(WaitingGame(ZeroScores, 1), FiveShuffle)
  /\ last = Timers(TRUE, FALSE) @@ Last("none", NoPlayer, Result(game, TRUE))

\* after a successful reveal that was the last one the timer is set
TimerSet(r) == last.timer \/ (r.success /\ allRevealed(r.game))

\* the declare-grand-tichu handler
DeclareGrandTichu(playerId) ==
  \E r \in {declareGrandTichu(game, playerId)} :
    /\ game' = r.game
    /\ last' = Timers(last.startTimer, TimerSet(r)) @@ last

\* the reveal-remaining-cards handler
RevealRemainingCards(playerId) ==
  \E r \in {revealRemainingCards(game, playerId)} :
    /\ game' = r.game
    /\ last' = Timers(last.startTimer, TimerSet(r)) @@ last

\* the phase is set whatever it was
advanceToExchange_Unchecked(g, mayAdvance) == [g EXCEPT !.state = "exchanging"]

\* the callback of a timer: if (game.state === 'grand-tichu') the exchange
\* begins (startGame's callback tests allRevealed as well)
advanceToExchange(g, mayAdvance) ==
  IF g.state = "grand-tichu" /\ mayAdvance
    THEN [g EXCEPT !.state = "exchanging"] ELSE g

\* the callback of the timer set by startGame
StartTimer ==
  /\ last.startTimer
  /\ game' = advanceToExchange(game, allRevealed(game))
  /\ last' = Timers(FALSE, last.timer) @@ last

\* the callback of the timer set by a reveal
ExchangeTimer ==
  /\ last.timer
  /\ game' = advanceToExchange(game, TRUE)
  /\ last' = Timers(last.startTimer, FALSE) @@ last

\* the exchange-cards handler
ExchangeCards(playerId, cards) ==
  \E r \in {onExchangeCards(game, playerId, cards)} :
    /\ game' = r.game
    /\ UNCHANGED last

NextDeal ==
  \/ \E playerId \in Players : DeclareGrandTichu(playerId)
  \/ \E playerId \in Players : RevealRemainingCards(playerId)
  \/ StartTimer
  \/ ExchangeTimer
  \/ \E playerId \in Players :
       \E cards \in Submissions(game.hands[playerId]) :
         ExchangeCards(playerId, cards)

SpecDeal == InitDeal /\ [][NextDeal]_vars

\* a pending timer fires
SpecDealFair == SpecDeal /\ WF_vars(StartTimer) /\ WF_vars(ExchangeTimer)


\* ------------------------------------------------------------ properties

\* what the handlers would answer to an intent in the current state
PassResult(playerId) == makeMove(game, playerId, <<>>, "pass", NoWish, <<>>)
PlayResult(playerId, cards, mahJongWish, shuffled) ==
  makeMove(game, playerId, cards, "play", mahJongWish, shuffled)
SelectResult(playerId, selectedOpponentId) ==
  selectDragonOpponent(game, playerId, selectedOpponentId)

Pending == game.dragonOpponentSelection # NoSelection

\* C1: a rejected intent (Play, Pass, bomb, Dragon recipient selection)
\* leaves every field of the game unchanged.
C1_RejectedIntentChangesNothing ==
  /\ \A playerId \in Players : \A r \in {PassResult(playerId)} :
       ~r.success => r.game = game
  /\ \A playerId \in Players, shuffled \in Shuffles :
       \A cards \in Plays(game, playerId) : \A mahJongWish \in Wishes(cards) :
         \A r \in {PlayResult(playerId, cards, mahJongWish, shuffled)} :
           ~r.success => r.game = game
  /\ \A playerId \in Players, selectedOpponentId \in Players :
       \A r \in {SelectResult(playerId, selectedOpponentId)} :
         ~r.success => r.game = game

\* how often card c lies in the hands, in the current trick, on the stacks
\* and in a pending Dragon gift
Copies(c) ==
  Cardinality({p \in Players : c \in game.hands[p]})
    + CountOf(TrickCards(game.currentTrick), c)
    + CountOf(game.playerStacks[0].cards \o game.playerStacks[1].cards
                \o game.playerStacks[2].cards \o game.playerStacks[3].cards, c)
    + CountOf(game.dragonOpponentSelection.trickCards, c)

\* C2: while a round is played, the hands, the current trick, the stacks (and
\* a trick waiting for its Dragon recipient) together hold every card of the
\* dealt deck exactly once: no card is duplicated or lost.
C2_CardsConserved ==
  game.state = "playing" =>
    \E shuffled \in Shuffles :
      \A c \in Deck : Copies(c) = IF c \in SeqToSet(shuffled) THEN 1 ELSE 0


currentSeat == PlayerAt(game, game.currentPlayerIndex)

\* the last intent was accepted and left its trick open
TrickGoesOn(action) ==
  /\ last.action = action /\ last.success /\ ~last.trickWon
  /\ game.state = "playing" /\ game.currentTrick # <<>>

\* C3: after an accepted Play or Pass that does not end the trick, the
\* current seat is not out, has cards and, after a Pass, has not passed.
C3_TurnGoesToActiveSeat ==
  /\ TrickGoesOn("play") \/ TrickGoesOn("pass") =>
       ~hasGoneOut(game, currentSeat) /\ ~hasNoCards(game, currentSeat)
  /\ TrickGoesOn("pass") => ~hasPassed(game, currentSeat)

highestPlaySeat == getCurrentWinningPlay(game.currentTrick).playerId

\* every seat but the one holding the highest play that still has cards has
\* passed or has already played in the open trick
AllOthersActed ==
  /\ game.state = "playing" /\ game.currentTrick # <<>>
  /\ \A id \in Players \ {highestPlaySeat} :
       ~hasNoCards(game, id) => hasPassed(game, id) \/ hasPlayed(game, id)

\* C4: a trick ends, and goes to the seat holding the highest play, as soon as
\* every other seat that still has cards has passed or already played lower:
\* no accepted Play or Pass leaves such a trick open.
C4_TrickEndsWhenAllOthersActed ==
  last.action \in {"play", "pass"} /\ last.success => ~AllOthersActed

\* C5: while a Dragon gift is pending every Pass and every Play (bombs
\* included) of every seat is rejected, and a recipient selection is accepted
\* from the giver only.
C5_OnlySelectionWhilePending ==
  Pending =>
    /\ \A playerId \in Players : ~PassResult(playerId).success
    /\ \A playerId \in Players, shuffled \in Shuffles :
         \A cards \in Plays(game, playerId) : \A mahJongWish \in Wishes(cards) :
           ~PlayResult(playerId, cards, mahJongWish, shuffled).success
    /\ \A playerId \in Players, selectedOpponentId \in Players :
         SelectResult(playerId, selectedOpponentId).success
           => playerId = game.dragonOpponentSelection.playerId

\* the cards, counted with repetition, are all held by the seat
SubMultiset(cards, hand) ==
  \A c \in SeqToSet(cards) : CountOf(cards, c) <= IF c \in hand THEN 1 ELSE 0

\* C6: a Play is rejected unless its cards form a sub-multiset of the seat's
\* hand; a play that lists a card more often than the seat holds it is
\* rejected.
C6_PlayNeedsCardsInHand ==
  \A playerId \in Players, shuffled \in Shuffles :
    \A cards \in Plays(game, playerId) : \A mahJongWish \in Wishes(cards) :
      PlayResult(playerId, cards, mahJongWish, shuffled).success
        => SubMultiset(cards, game.hands[playerId])

\* C7: a Pass, and a Play that is not a bomb, from a seat other than the
\* current seat is always rejected.
C7_OutOfTurnRejected ==
  \A playerId \in Players \ {currentSeat} :
    /\ ~PassResult(playerId).success
    /\ \A shuffled \in Shuffles :
         \A cards \in Plays(game, playerId) : \A mahJongWish \in Wishes(cards) :
           validateCombination(cards).type # "bomb"
             => ~PlayResult(playerId, cards, mahJongWish, shuffled).success

\* a seat that is not the current seat holds a play that beats the open trick,
\* and none of the pass guards applies to it; both intents are rejected
C7_Witness ==
  /\ game.state = "playing" /\ game.currentTrick # <<>>
  /\ \E playerId \in Players \ {currentSeat} :
       /\ ~MustPlay(game, playerId)
       /\ ~PassResult(playerId).success
       /\ \E cards \in OwnPlays(game.hands[playerId]) :
            /\ validateCombination(cards).valid
            /\ validateCombination(cards).type # "bomb"
            /\ ~DoesNotBeat(game, validateCombination(cards))
            /\ ~PlayResult(playerId, cards, NoWish, BombShuffle).success

\* the bombs a seat holds
OwnBombs(playerId) ==
  {cards \in OwnPlays(game.hands[playerId]) : validateCombination(cards).type = "bomb"}

highestPlay == PlayCombination(getCurrentWinningPlay(game.currentTrick))

\* bomb ordering: a straight flush beats four of a kind; straight flushes go by
\* length, then by height; four of a kind goes by rank
Outranks(bomb, other) ==
  IF bomb.bombType # other.bombType THEN bomb.bombType = "straight-flush"
  ELSE IF bomb.bombType = "four-of-a-kind" THEN bomb.rank > other.rank
  ELSE \/ bomb.length > other.length
       \/ bomb.length = other.length /\ bomb.highestValue > other.highestValue

\* C8: during play, a bomb played onto a non-empty trick by a seat that holds
\* its cards, in turn or out of turn, is accepted exactly when no Dog is in the
\* trick and the highest play is not a bomb or is a bomb the new one outranks.
C8_BombAcceptedIffAllowed ==
  game.state = "playing" /\ game.currentTrick # <<>> =>
    \A playerId \in Players, shuffled \in Shuffles : \A cards \in OwnBombs(playerId) :
      PlayResult(playerId, cards, NoWish, shuffled).success
        <=> /\ Dog \notin SeqToSet(TrickCards(game.currentTrick))
            /\ \/ highestPlay.type # "bomb"
               \/ Outranks(validateCombination(cards), highestPlay)

\* the highest play of the open trick is a bomb, and a seat holds a bomb that
\* outranks it and is accepted
C8_Witness ==
  /\ game.state = "playing" /\ game.currentTrick # <<>>
  /\ highestPlay.type = "bomb"
  /\ \E playerId \in Players : \E cards \in OwnBombs(playerId) :
       /\ Outranks(validateCombination(cards), highestPlay)
       /\ PlayResult(playerId, cards, NoWish, BombShuffle).success

\* the last intent was an accepted bomb and the round goes on
BombAccepted ==
  /\ last.action = "play" /\ last.success /\ last.bombPlayed
  /\ game.state = "playing" /\ game.currentTrick # <<>>

\* positions behind the first of the turn order whose seat is not out and has cards
ActiveBehind ==
  {i \in 2..Len(game.turnOrder) :
     ~hasGoneOut(game, game.turnOrder[i]) /\ ~hasNoCards(game, game.turnOrder[i])}

\* C9: after an accepted bomb the bomber is first in the turn order, and the
\* turn goes to the first seat behind the bomber that is not out and has
\* cards, never to the bomber.
C9_TurnAfterBomb ==
  BombAccepted =>
    /\ game.turnOrder[1] = last.playerId
    /\ currentSeat # last.playerId
    /\ ActiveBehind # {} => currentSeat = game.turnOrder[SetMin(ActiveBehind)]

\* the seat is to open a new trick
ToLead(playerId) ==
  game.currentTrick = <<>> /\ (currentSeat = playerId \/ game.leadPlayer = playerId)

\* a wish is active and the seat holds a card of the wished rank
HoldsWished(playerId) ==
  /\ game.mahJongWish # NoWish
  /\ \E c \in game.hands[playerId] : IsStandard(c) /\ RankOrName(c) = game.mahJongWish

\* C10: a Pass is rejected whenever the passing seat is to lead a new (empty)
\* trick, or holds Dog priority, or holds a card of the rank of an active
\* Mah Jong wish.
C10_PriorityMayNotPass ==
  \A playerId \in Players :
    ToLead(playerId) \/ game.dogPriorityPlayer = playerId \/ HoldsWished(playerId)
      => ~PassResult(playerId).success

\* it is the turn of a seat that did not lead the open trick and holds a card of
\* the wished rank, and its Pass is rejected
C10_Witness ==
  /\ game.state = "playing" /\ game.currentTrick # <<>>
  /\ game.leadPlayer # currentSeat /\ game.dogPriorityPlayer # currentSeat
  /\ HoldsWished(currentSeat)
  /\ ~PassResult(currentSeat).success

\* C11: in every round the first accepted play of the seat that holds the
\* Mah Jong when play starts contains the Mah Jong: no seat that has played
\* a card still holds it.
C11_MahJongInFirstPlay ==
  game.state = "playing" =>
    \A playerId \in Players :
      game.firstCardPlayed[playerId] => MahJong \notin game.hands[playerId]

\* the play is of the type and size of the other and of higher value
Greater(validation, other) ==
  /\ validation.type = other.type
  /\ Len(validation.cards) = Len(other.cards)
  /\ compareCombinations(validation, other) = 1

\* C12: every accepted play that is not a bomb and is put onto a non-empty
\* trick is comparable to the highest play of the trick and strictly greater.
C12_PlayBeatsHighest ==
  game.currentTrick # <<>> =>
    \A playerId \in Players, shuffled \in Shuffles :
      \A cards \in Plays(game, playerId) : \A mahJongWish \in Wishes(cards) :
        \A validation \in {validateCombination(cards)} :
          validation.type # "bomb"
            /\ PlayResult(playerId, cards, mahJongWish, shuffled).success
          => Greater(validation, highestPlay)

\* C13: after an accepted Dog lead the current trick is empty (the Dog is
\* discarded without a winner), so that the next play of the seat with the
\* priority opens a fresh trick.
C13_DogLeavesTrickEmpty ==
  \A playerId \in Players, shuffled \in Shuffles :
    \A cards \in Plays(game, playerId) : \A mahJongWish \in Wishes(cards) :
      \A r \in {PlayResult(playerId, cards, mahJongWish, shuffled)} :
        Includes(cards, Dog) /\ r.success => r.game.currentTrick = <<>>

\* the seat holds cards and is not out
Active(g, id) == g.hands[id] # {} /\ ~hasGoneOut(g, id)

\* the seat a Dog lead of playerId hands over to: the partner, or else the
\* first seat behind the partner in rotation that still has cards
DogTargetOf(g, playerId) ==
  UNION {IF Active(g, q) THEN {q}
         ELSE IF Active(g, (q + 1) % 4) THEN {(q + 1) % 4}
         ELSE IF Active(g, (q + 2) % 4) THEN {(q + 2) % 4}
         ELSE {(q + 3) % 4} : q \in {(playerId + 2) % 4}}

\* C14: after an accepted Dog lead the lead, the Dog priority and the turn all
\* belong to the partner of the Dog's player if the partner has cards and is
\* not out, and else to the next seat in rotation that still has cards.
C14_DogHandsOver ==
  \A playerId \in Players, shuffled \in Shuffles :
    \A cards \in Plays(game, playerId) : \A mahJongWish \in Wishes(cards) :
      \A r \in {PlayResult(playerId, cards, mahJongWish, shuffled)} :
        Includes(cards, Dog) /\ r.success =>
          \A q \in {Only(DogTargetOf(r.game, playerId))} :
            /\ r.game.leadPlayer = q
            /\ r.game.dogPriorityPlayer = q
            /\ PlayerAt(r.game, r.game.currentPlayerIndex) = q

\* C15: a Dragon gift becomes pending exactly when a trick is won whose
\* winning play is the Dragon single; a trick won by any other play goes to
\* the winner's stack without a gift.
C15_GiftOnlyForDragon ==
  ~Pending /\ game.currentTrick # <<>> =>
    \A playerId \in Players : \A r \in {PassResult(playerId)} :
      r.success /\ r.trickWon =>
        (r.game.dragonOpponentSelection # NoSelection
           <=> highestPlay.cards = <<Dragon>>)

\* seats facing each other are partners
Opponents(a, b) == a % 2 # b % 2

\* C16: a Dragon recipient selection is accepted only while a gift is
\* pending, only from the seat the gift is pending for, and only when the
\* selected seat is an opponent: the partner and the seat itself are rejected.
C16_SelectionGuards ==
  \A playerId \in Players, selectedOpponentId \in Players :
    SelectResult(playerId, selectedOpponentId).success =>
      /\ Pending
      /\ game.dragonOpponentSelection.playerId = playerId
      /\ Opponents(playerId, selectedOpponentId)

\* a gift is pending: the giver's choice of an opponent is accepted, its
\* choice of the partner and another seat's choice are rejected
C16_Witness ==
  /\ Pending
  /\ \E playerId \in Players :
       /\ game.dragonOpponentSelection.playerId = playerId
       /\ SelectResult(playerId, (playerId + 1) % 4).success
       /\ ~SelectResult(playerId, (playerId + 2) % 4).success
       /\ ~SelectResult(playerId, playerId).success
       /\ ~SelectResult((playerId + 1) % 4, playerId).success

\* the stacks once the pending trick has gone to the selected seat
StacksAfterGift(selectedOpponentId) ==
  [game.playerStacks EXCEPT ![selectedOpponentId] =
     [cards |-> @.cards \o game.dragonOpponentSelection.trickCards,
      points |-> @.points + SumPoints(game.dragonOpponentSelection.trickCards)]]

\* C17: when a pending Dragon gift is resolved, the cards and the card points
\* of the won trick are added to the stack of the selected opponent and to no
\* other stack, and the Dragon's player leads the next trick.
C17_GiftGoesToOpponent ==
  Pending =>
    \A playerId \in Players, selectedOpponentId \in Players :
      \A r \in {SelectResult(playerId, selectedOpponentId)} :
        r.success =>
          /\ r.game.playerStacks = StacksAfterGift(selectedOpponentId)
          /\ r.game.currentTrick = <<>>
          /\ r.game.leadPlayer = playerId
          /\ PlayerAt(r.game, r.game.currentPlayerIndex) = playerId


\* the wish after an accepted step that leaves the round in play
WishAfter(r, fulfilled) ==
  r.success /\ r.game.state = "playing" =>
    r.game.mahJongWish = IF fulfilled THEN NoWish ELSE game.mahJongWish

\* the card list is one standard card of the wished rank
PlaysWished(cards) ==
  Len(cards) = 1 /\ IsStandard(cards[1]) /\ RankOrName(cards[1]) = game.mahJongWish

\* C18: an active Mah Jong wish is kept by every accepted play, pass and
\* recipient selection, tricks won included, and is cleared exactly by an
\* accepted single card of the wished rank.
C18_WishStaysUntilPlayed ==
  game.mahJongWish # NoWish =>
    /\ \A playerId \in Players : WishAfter(PassResult(playerId), FALSE)
    /\ \A playerId \in Players, selectedOpponentId \in Players :
         WishAfter(SelectResult(playerId, selectedOpponentId), FALSE)
    /\ \A playerId \in Players, shuffled \in Shuffles :
         \A cards \in Plays(game, playerId) : \A mahJongWish \in Wishes(cards) :
           WishAfter(PlayResult(playerId, cards, mahJongWish, shuffled),
                     PlaysWished(cards))

\* the wish has outlived a won trick and the seat to lead fulfils it
C18_Witness ==
  /\ game.mahJongWish # NoWish /\ last.trickWon /\ game.currentTrick = <<>>
  /\ \E playerId \in Players, shuffled \in Shuffles :
       \E cards \in Plays(game, playerId) :
         /\ PlaysWished(cards)
         /\ \E r \in {PlayResult(playerId, cards, NoWish, shuffled)} :
              r.success /\ r.game.state = "playing" /\ r.game.mahJongWish = NoWish

\* C19: while a wish is active, a seat that starts a trick and holds a card
\* of the wished rank has every lead rejected except one card of that rank
\* played as a single.
C19_WishedLeadOnly ==
  game.currentTrick = <<>> =>
    \A playerId \in Players :
      currentSeat = playerId /\ HoldsWished(playerId) =>
        \A shuffled \in Shuffles :
          \A cards \in Plays(game, playerId) : \A mahJongWish \in Wishes(cards) :
            PlayResult(playerId, cards, mahJongWish, shuffled).success
              => PlaysWished(cards)

\* C20: a Mah Jong played as a single is accepted only together with a wish
\* for a rank 2..A, and after every accepted Mah Jong single that leaves the
\* round in play a wish for that rank is active.
C20_MahJongSetsWish ==
  \A playerId \in Players, shuffled \in Shuffles :
    \A mahJongWish \in Wishes(<<MahJong>>) :
      \A r \in {PlayResult(playerId, <<MahJong>>, mahJongWish, shuffled)} :
        r.success =>
          /\ mahJongWish \in 2..14
          /\ r.game.state = "playing" => r.game.mahJongWish = mahJongWish

\* C21: after any accepted play (normal play, bomb or Dog lead) that empties
\* the hand of its player and leaves the round in play, the player is in the
\* list of the players that are out.
C21_EmptyHandIsOut ==
  \A playerId \in Players, shuffled \in Shuffles :
    \A cards \in Plays(game, playerId) : \A mahJongWish \in Wishes(cards) :
      \A r \in {PlayResult(playerId, cards, mahJongWish, shuffled)} :
        r.success /\ r.game.state = "playing" /\ r.game.hands[playerId] = {}
          => Includes(r.game.playersOut, playerId)

\* the seats with an empty hand once the player has put the cards down
EmptyAfter(playerId, cards) ==
  {p \in Players :
     game.hands[p] \ (IF p = playerId THEN {cards[i] : i \in DOMAIN cards} ELSE {}) = {}}

\* three seats have finished, or the only two that have are partners
RoundOver(empty) ==
  \/ Cardinality(empty) = 3
  \/ Cardinality(empty) = 2 /\ \A p \in empty, q \in empty : Opponents(p, q) = FALSE

\* C22: a round ends exactly when three seats are out and the fourth still
\* holds cards, or when the first two seats to finish are partners: no state
\* in play satisfies either condition, an accepted play ends the round only
\* by bringing one about, and no pass or recipient selection ends it.
C22_RoundEndsExactly ==
  game.state = "playing" =>
    /\ ~RoundOver(EmptyAfter(NoPlayer, <<>>))
    /\ \A playerId \in Players, shuffled \in Shuffles :
         \A cards \in Plays(game, playerId) : \A mahJongWish \in Wishes(cards) :
           \A r \in {PlayResult(playerId, cards, mahJongWish, shuffled)} :
             r.success =>
               (r.game.state # "playing" <=> RoundOver(EmptyAfter(playerId, cards)))
    /\ \A playerId \in Players : \A r \in {PassResult(playerId)} :
         r.success => r.game.state = "playing"
    /\ \A playerId \in Players, selectedOpponentId \in Players :
         \A r \in {SelectResult(playerId, selectedOpponentId)} :
           r.success => r.game.state = "playing"

\* the same intent on the game without any declaration
Undeclared ==
  [game EXCEPT !.tichuDeclarations = AllFalse, !.grandTichuDeclarations = AllFalse]

\* what the declarations of the players of team t are worth when the player
\* first is the first to finish
DeclaredBonus(t, first) ==
  LET worth(p) ==
        IF team(game, p) # t THEN 0
        ELSE (IF game.tichuDeclarations[p]
                THEN (IF p = first THEN 100 ELSE 0 - 100) ELSE 0)
             + (IF game.grandTichuDeclarations[p]
                  THEN (IF p = first THEN 200 ELSE 0 - 200) ELSE 0)
  IN worth(0) + worth(1) + worth(2) + worth(3)

\* C23: at round end each seat that declared Tichu adds +100 to its team if
\* it was the first to finish and -100 otherwise, and each seat that declared
\* Grand Tichu +200 or -200: the play that ends the round moves each team's
\* total by what it would move it without declarations plus those amounts.
C23_DeclarationsScored ==
  game.state = "playing" /\ game.playersOut # <<>> =>
    \A playerId \in Players, shuffled \in Shuffles :
      \A cards \in Plays(game, playerId) :
        \A r \in {PlayResult(playerId, cards, NoWish, shuffled)} :
          \A u \in {makeMove(Undeclared, playerId, cards, "play", NoWish, shuffled)} :
            r.success /\ r.game.state # "playing" =>
              /\ r.game.scores.team1
                   = u.game.scores.team1 + DeclaredBonus(1, game.playersOut[1])
              /\ r.game.scores.team2
                   = u.game.scores.team2 + DeclaredBonus(2, game.playersOut[1])

\* the play of the partner of the only player that is out ends the round
DoubleVictoryBy(playerId, r) ==
  /\ Len(game.playersOut) = 1 /\ game.playersOut[1] # playerId
  /\ team(game, game.playersOut[1]) = team(game, playerId)
  /\ r.success /\ r.game.state # "playing"

\* C24: in a double victory no card points are counted: the team that
\* finished first and second scores 200 and the other team 0, each with the
\* bonuses and penalties of the declarations of its members (200 / -100 with
\* one failed Tichu on the losing side).
C24_DoubleVictoryScore ==
  game.state = "playing" =>
    \A playerId \in Players, shuffled \in Shuffles :
      \A cards \in Plays(game, playerId) :
        \A r \in {PlayResult(playerId, cards, NoWish, shuffled)} :
          DoubleVictoryBy(playerId, r) =>
            \A t \in {team(game, playerId)} :
              /\ AddTeam(r.game.scores, 3 - t, 0)
                   = AddTeam(AddTeam(game.scores, t,
                                     200 + DeclaredBonus(t, game.playersOut[1])),
                             3 - t, DeclaredBonus(3 - t, game.playersOut[1]))

\* the card points of the stacks once the tailender's have gone to the first
\* finisher
AfterTransfer(first, tailender) ==
  [p \in Players |->
     IF p = tailender THEN 0
     ELSE IF p = first
       THEN game.playerStacks[first].points + game.playerStacks[tailender].points
     ELSE game.playerStacks[p].points]

\* C25: in a tailender round end the card points of the tailender (negative
\* ones too) are added to those of the first finisher and the tailender's
\* become 0 before the teams are summed: with no declaration in the game,
\* each team's total moves by the sum of its seats' points after the transfer.
C25_TailenderTransfer ==
  game.state = "playing" /\ game = Undeclared /\ game.playersOut # <<>> =>
    \A playerId \in Players, shuffled \in Shuffles :
      \A cards \in Plays(game, playerId) :
        \A r \in {PlayResult(playerId, cards, NoWish, shuffled)} :
          \A empty \in {EmptyAfter(playerId, cards)} :
            r.success /\ r.game.state # "playing" /\ Cardinality(empty) = 3 =>
              \A tailender \in Players \ empty :
                \A points \in {AfterTransfer(game.playersOut[1], tailender)} :
                  /\ r.game.scores.team1
                       = game.scores.team1 + TeamSum(game, 1, points)
                  /\ r.game.scores.team2
                       = game.scores.team2 + TeamSum(game, 2, points)

\* C26: after a round is scored the match is finished if and only if some
\* team's total is at least 1000, and the recorded winner is the team with
\* the higher total.
C26_MatchEnd ==
  game.state = "playing" =>
    \A playerId \in Players, shuffled \in Shuffles :
      \A cards \in Plays(game, playerId) :
        \A r \in {PlayResult(playerId, cards, NoWish, shuffled)} :
          r.success /\ r.game.state # "playing" =>
            /\ r.game.state = "finished"
                 <=> (r.game.scores.team1 >= 1000 \/ r.game.scores.team2 >= 1000)
            /\ r.game.state = "finished" =>
                 /\ r.game.scores.team1 > r.game.scores.team2 => r.game.winner = 1
                 /\ r.game.scores.team2 > r.game.scores.team1 => r.game.winner = 2

\* C27: when a round ends with both totals below 1000, the next round starts
\* from a fresh round state: the new deal, the Grand Tichu window, and no
\* trick, passed list, out list, stack, declaration, wish, Dog priority or
\* Dragon flag of the finished round.
C27_FreshRound ==
  game.state = "playing" =>
    \A playerId \in Players, shuffled \in Shuffles :
      \A cards \in Plays(game, playerId) :
        \A r \in {PlayResult(playerId, cards, NoWish, shuffled)} :
          r.success /\ r.game.state # "playing"
            /\ r.game.scores.team1 < 1000 /\ r.game.scores.team2 < 1000 =>
              /\ r.game.state = "grand-tichu"
              /\ r.game.hands = [p \in Players |-> initialHands(shuffled, p)]
              /\ r.game.remainingCards = [p \in Players |-> remainingCards(shuffled, p)]
              /\ r.game.currentTrick = <<>> /\ r.game.passedPlayers = <<>>
              /\ r.game.playersOut = <<>> /\ ~r.game.roundEnded
              /\ r.game.playerStacks = [p \in Players |-> EmptyStack]
              /\ r.game.tichuDeclarations = AllFalse
              /\ r.game.grandTichuDeclarations = AllFalse
              /\ r.game.firstCardPlayed = AllFalse
              /\ r.game.mahJongWish = NoWish /\ ~r.game.mahJongPlayed
              /\ r.game.dogPriorityPlayer = NoPlayer
              /\ r.game.dragonOpponentSelection = NoSelection
              /\ r.game.dragonPlayed = NoPlayer

\* how many seats behind the player, in the turn order of g, the seats that
\* are not out and have cards sit
StepsToActive(g, playerId) ==
  {k \in 1..3 : Active(g, PlayerAt(g, (IndexOf(g, playerId) + k) % 4))}

\* C28: after an accepted play that is not a bomb (nor the Dog) and ends
\* neither the trick nor the round, the passed list is empty and the turn is
\* with the first seat behind the player, in cyclic turn order, that is not
\* out and has cards, whether or not it passed or played before in the trick.
C28_TurnAfterPlay ==
  game.state = "playing" =>
    \A playerId \in Players, shuffled \in Shuffles :
      \A cards \in Plays(game, playerId) : \A mahJongWish \in Wishes(cards) :
        \A r \in {PlayResult(playerId, cards, mahJongWish, shuffled)} :
          r.success /\ ~r.bombPlayed /\ ~Includes(cards, Dog)
            /\ ~r.trickWon /\ r.game.state = "playing"
            /\ StepsToActive(r.game, playerId) # {} =>
              /\ r.game.passedPlayers = <<>>
              /\ PlayerAt(r.game, r.game.currentPlayerIndex)
                   = PlayerAt(r.game, (IndexOf(r.game, playerId)
                                         + SetMin(StepsToActive(r.game, playerId))) % 4)

StacksAfterTrick(winnerId) ==
  [game.playerStacks EXCEPT ![winnerId] =
     [cards |-> @.cards \o TrickCards(game.currentTrick),
      points |-> @.points + SumPoints(TrickCards(game.currentTrick))]]

\* the seat that leads after the winner: the winner, or without cards the
\* next seat in turn order that has some
LeaderAfter(g, winnerId) ==
  IF Active(g, winnerId) \/ StepsToActive(g, winnerId) = {} THEN winnerId
  ELSE PlayerAt(g, (IndexOf(g, winnerId) + SetMin(StepsToActive(g, winnerId))) % 4)

\* C30: when a trick is won without a Dragon gift, all its cards go to the
\* stack of the winner, the trick and the passed list are cleared, and the
\* winner leads the next trick, or, when the winner has no cards left, the
\* next seat in turn order that still has cards.
C30_TrickGoesToWinner ==
  game.state = "playing" /\ game.currentTrick # <<>> =>
    \A playerId \in Players :
      \A r \in {PassResult(playerId)} :
        r.success /\ r.trickWon /\ highestPlay.cards # <<Dragon>> =>
          /\ r.game.playerStacks = StacksAfterTrick(highestPlaySeat)
          /\ r.game.currentTrick = <<>> /\ r.game.passedPlayers = <<>>
          /\ r.game.leadPlayer = LeaderAfter(r.game, highestPlaySeat)
          /\ PlayerAt(r.game, r.game.currentPlayerIndex)
               = LeaderAfter(r.game, highestPlaySeat)

\* C31: a Tichu declaration of a seat is accepted exactly in the play phase
\* before that seat has placed its first card, whoever is to move
C31_TichuWindow ==
  \A playerId \in Players :
    declareTichu(game, playerId).success
      <=> (game.state = "playing" /\ ~game.firstCardPlayed[playerId])

\* C32: the phase is never the exchange while a seat has not revealed its
\* hidden cards, and once all four have revealed it becomes the exchange
C32_ExchangeOnceAllRevealed ==
  /\ [](game.state = "exchanging" => allRevealed(game))
  /\ (game.state = "grand-tichu" /\ allRevealed(game)) ~> (game.state = "exchanging")

\* all four have revealed, one of them by a Grand Tichu, and the exchange began
C32_Witness ==
  /\ game.state = "exchanging" /\ allRevealed(game)
  /\ \E p \in Players : game.grandTichuDeclarations[p]
  /\ \E p \in Players : ~game.grandTichuDeclarations[p]

NoDuplicates(cards) ==
  \A i, j \in DOMAIN cards : cards[i] = cards[j] => i = j

\* C33: an exchange submission is accepted exactly when the phase is the
\* exchange and the list has three cards, all of the sender's hand, none of
\* them named twice
C33_ExchangeGuards ==
  \A playerId \in Players :
    \A cards \in Submissions(game.hands[playerId]) :
      exchangeCards(game, playerId, cards).success
        <=> /\ game.state = "exchanging"
            /\ Len(cards) = 3
            /\ SeqToSet(cards) \subseteq game.hands[playerId]
            /\ NoDuplicates(cards)

\* a submission of playerId that is the fourth one and completes the exchange
Completes(playerId, cards) ==
  /\ game.state = "exchanging"
  /\ exchangeCards(game, playerId, cards).success
  /\ \A p \in Players \ {playerId} : game.exchangeComplete[p]

\* the lists that are swapped when playerId's submission completes the exchange
Submitted(playerId, cards) ==
  [p \in Players |-> IF p = playerId THEN cards ELSE game.exchangeCards[p]]

\* the cards that hand `after` has and the sender's hand `before` had
Received(before, after, sender, recipient) ==
  after[recipient] \cap before[sender]

\* C34: the swap takes the three submitted cards out of each hand and gives
\* one to each other seat, the i-th card to the i-th next seat in turn
\* order; each seat receives one card from each other seat and every hand
\* keeps its size
C34_SwapGivesThreeEach ==
  \A playerId \in Players :
    \A cards \in Submissions(game.hands[playerId]) :
      Completes(playerId, cards) =>
        \A after \in {onExchangeCards(game, playerId, cards).game.hands} :
          \A lists \in {Submitted(playerId, cards)} :
            \A p \in Players :
              /\ game.hands[p] \ after[p] = SeqToSet(lists[p])
              /\ Cardinality(SeqToSet(lists[p])) = 3
              /\ \A i \in 1..3 :
                   lists[p][i] \in after[PlayerAt(game, (IndexOf(game, p) + i) % 4)]
              /\ \A q \in Players \ {p} :
                   Cardinality(Received(game.hands, after, q, p)) = 1
              /\ Cardinality(after[p]) = Cardinality(game.hands[p])

\* the seats holding the Mah Jong in game g
mahJongHolders(g) == {p \in Players : MahJong \in g.hands[p]}

\* C35: after the swap the phase is the play phase and the seat that then
\* holds the Mah Jong is the lead seat, the current seat and the first seat
\* of the turn order
C35_MahJongHolderLeads ==
  \A playerId \in Players :
    \A cards \in Submissions(game.hands[playerId]) :
      Completes(playerId, cards) =>
        \A g \in {onExchangeCards(game, playerId, cards).game} :
          /\ g.state = "playing"
          /\ mahJongHolders(g) = {g.leadPlayer}
          /\ PlayerAt(g, g.currentPlayerIndex) = g.leadPlayer
          /\ PlayerAt(g, 0) = g.leadPlayer

\* the submission that completes the exchange moves the Mah Jong to another seat
C35_Witness ==
  \E playerId \in Players :
    \E cards \in Submissions(game.hands[playerId]) :
      /\ Completes(playerId, cards)
      /\ mahJongHolders(onExchangeCards(game, playerId, cards).game)
           # mahJongHolders(game)

\* the cards named anywhere in a view
CardsInView(view) ==
  UNION {view.hands[p] : p \in DOMAIN view.hands}
    \cup UNION {view.remainingCards[p] : p \in Players}
    \cup UNION {SeqToSet(view.exchangeCards[p]) : p \in Players}
    \cup UNION {SeqToSet(view.playerStacks[p].cards) : p \in Players}
    \cup SeqToSet(TrickCards(view.currentTrick))
    \cup SeqToSet(view.dragonOpponentSelection.trickCards)

\* C36: the view produced for a seat names no card that another seat holds
\* in its hand, and gives the size of every other hand
C36_ViewHidesOtherHands ==
  \A playerId \in Players :
    \A view \in {getPlayerView(game, playerId)} :
      \A other \in Players \ {playerId} :
        /\ CardsInView(view) \cap game.hands[other] = {}
        /\ view.handCounts[other] = Cardinality(game.hands[other])

IsPrefix(s, t) == Len(s) <= Len(t) /\ SubSeq(t, 1, Len(s)) = s

\* C37: during a round a step only appends to out: what it held stays, in
\* the same order, and no seat is in it twice
C37_OutPrefixStable ==
  [][game'.state = "playing" =>
       /\ IsPrefix(game.playersOut, game'.playersOut)
       /\ NoDuplicates(game'.playersOut)]_vars

\* a second seat has just gone out after a seat of the other team
C37_Witness ==
  /\ game.state = "playing" /\ Len(game.playersOut) = 2
  /\ last.action = "play" /\ last.playerWon

\* two cards of the same standard rank, or a standard card and the Phoenix
IsPair(a, b) ==
  \/ IsStandard(a) /\ IsStandard(b) /\ a \div 10 = b \div 10
  \/ IsStandard(a) /\ b = Phoenix
  \/ a = Phoenix /\ IsStandard(b)

\* C38: two cards are a pair exactly if they have the same standard rank or
\* are a standard card and the Phoenix, and no play of two special cards is
\* accepted
C38_NoPairOfSpecials ==
  /\ \A a, b \in Deck : validatePair(<<a, b>>).valid <=> IsPair(a, b)
  /\ \A playerId \in Players, shuffled \in Shuffles :
       \A cards \in Plays(game, playerId) :
         Len(cards) = 2 /\ IsSpecial(cards[1]) /\ IsSpecial(cards[2])
           => ~PlayResult(playerId, cards, NoWish, shuffled).success

\* some play of cards of the own hand is accepted from playerId
SomePlayAccepted(playerId) ==
  \E shuffled \in Shuffles :
    \E cards \in OwnPlays(game.hands[playerId]) : \E mahJongWish \in Wishes(cards) :
      PlayResult(playerId, cards, mahJongWish, shuffled).success

\* C39: in the play phase with no Dragon gift pending the current seat has
\* cards and one of its intents is accepted: if none of its plays is, its
\* pass is
C39_NoDeadlock ==
  game.state = "playing" /\ ~Pending =>
    /\ game.hands[currentSeat] # {}
    /\ ~SomePlayAccepted(currentSeat) => PassResult(currentSeat).success

\* C40: while the current trick is empty a play is accepted from the seat
\* whose turn it is to lead only, whatever the cards, bombs included
C40_OnlyLeaderOpens ==
  game.state = "playing" /\ game.currentTrick = <<>> =>
    \A playerId \in Players \ {currentSeat} :
      \A shuffled \in Shuffles :
        \A cards \in Plays(game, playerId) : \A mahJongWish \in Wishes(cards) :
          ~PlayResult(playerId, cards, mahJongWish, shuffled).success

=========================================================================
